---------------------------- MODULE Spec2Model ----------------------------
(***************************************************************************)
(* Model of the codec core of @solana/codecs-core (src/unnamed/part_000):  *)
(* the two bounds guards, getEncodedSize, and the three factories          *)
(* createEncoder, createDecoder and createCodec.                           *)
(*                                                                         *)
(* A byte array is a sequence of 0..255; a byte offset o (0-based, as in   *)
(* the source) addresses element o + 1 of the sequence.  JavaScript        *)
(* objects are records; functions held in fields are named by strings and  *)
(* applied by the Apply... operators.                                      *)
(***************************************************************************)
EXTENDS Integers, Sequences, FiniteSets

VARIABLES
    desc,      \* the descriptor object the caller passed to the three factories
    encoder,   \* the object returned by createEncoder(desc)
    decoder,   \* the object returned by createDecoder(desc)
    codec,     \* the object returned by createCodec(desc)
    buffer,    \* the caller's byte array: the encode results so far, concatenated
    parts,     \* for each encode result in buffer: the value, its start and end
    last,      \* the most recent completed call and what it returned or threw
    heap,      \* the byte arrays allocated by the encode activations in flight
    calls,     \* the encode activations: value, target, buffer reference, position
    guard      \* the most recent direct call of a bounds guard and its outcome

vars == <<desc, encoder, decoder, codec, buffer, parts, last, heap, calls, guard>>

-----------------------------------------------------------------------------
(* Bounds of the model *)

MaxFixed == 2
MaxChain == 2
MaxOffset == 3
MaxCalls == 2
MaxLen == 5
MaxGuardOffset == 6
MaxExpected == 5

-----------------------------------------------------------------------------
(* JavaScript values *)

\* A field value that is a number, null or undefined (or absent).
Num(n) == [t |-> "number", n |-> n]
NullV == [t |-> "null", n |-> 0]
UndefV == [t |-> "undefined", n |-> 0]

\* An optional argument: <<>> when omitted, <<x>> when given.
Omitted == <<>>
Given(x) == <<x>>

\* The values handed to encode: a From value is a plain number or a bigint,
\* a decoded To value is always a bigint.
Number(n) == [kind |-> "number", n |-> n]
BigInt(n) == [kind |-> "bigint", n |-> n]

Values == {Number(0), BigInt(128), Number(300)}

\* The equivalence of a numeric codec: the same number, whichever the kind.
Equivalent(v, w) == v.n = w.n

\* new Uint8Array(n): n zero bytes.
Zeros(n) == [i \in 1..n |-> 0]

\* bytes[index] = b on a Uint8Array: stored modulo 256, ignored out of range.
SetByte(bytes, index, b) ==
    IF index + 1 \in 1..Len(bytes)
        THEN [bytes EXCEPT ![index + 1] = b % 256]
        ELSE bytes

-----------------------------------------------------------------------------
(* The bounds guards *)

NoError == [code |-> "none"]

\* offset = 0 default of the guards; offset ?? 0 of decode.
OffsetOrZero(offset) == IF offset = Omitted THEN 0 ELSE offset[1]

\* Mutant: the comparison made strict, so offset = length passes.
NotEmptyStrictComparison(codecDescription, bytes, offset) ==
    IF Len(bytes) - OffsetOrZero(offset) < 0
        THEN [code |-> "CANNOT_DECODE_EMPTY_BYTE_ARRAY",
              codecDescription |-> codecDescription]
        ELSE NoError

\* assertByteArrayIsNotEmptyForCodec: the error thrown, or NoError.
AssertByteArrayIsNotEmptyForCodec(codecDescription, bytes, offset) ==
    IF Len(bytes) - OffsetOrZero(offset) <= 0
        THEN [code |-> "CANNOT_DECODE_EMPTY_BYTE_ARRAY",
              codecDescription |-> codecDescription]
        ELSE NoError

\* Mutant: the offset forgotten when the available length is computed.
HasEnoughBytesIgnoresOffset(codecDescription, expected, bytes, offset) ==
    LET bytesLength == Len(bytes)
    IN  IF bytesLength < expected
            THEN [code |-> "INVALID_BYTE_LENGTH",
                  bytesLength |-> bytesLength,
                  codecDescription |-> codecDescription,
                  expected |-> expected]
            ELSE NoError

\* assertByteArrayHasEnoughBytesForCodec: the error thrown, or NoError.
AssertByteArrayHasEnoughBytesForCodec(codecDescription, expected, bytes, offset) ==
    LET bytesLength == Len(bytes) - OffsetOrZero(offset)
    IN  IF bytesLength < expected
            THEN [code |-> "INVALID_BYTE_LENGTH",
                  bytesLength |-> bytesLength,
                  codecDescription |-> codecDescription,
                  expected |-> expected]
            ELSE NoError

-----------------------------------------------------------------------------
(* Outcomes of a call *)

Returned(x) == [threw |-> FALSE, value |-> x]
Threw(e) == [threw |-> TRUE, error |-> e]
TypeError == [code |-> "TypeError"]

-----------------------------------------------------------------------------
(* The primitives a codec author supplies: variableSize, write and read.    *)
(* Three matched codecs (a little-endian u16, a compact one-or-two byte     *)
(* integer, a zero-size unit) and primitives that break the contract.       *)

\* EncoderSize.variableSize: (value) => number.
ApplyVariableSize(fn, value) ==
    CASE fn = "compactSize" -> Returned(IF value.n < 128 THEN 1 ELSE 2)
      [] fn = "constSize" -> Returned(1)
      [] OTHER -> Threw(TypeError)

\* Encoder.write: (value, bytes, offset) => offset.  bytes is changed in
\* place: the result holds the array after the call and the returned offset.
ApplyWrite(fn, value, bytes, offset) ==
    CASE fn = "writeU16" ->
            Returned([bytes |-> SetByte(SetByte(bytes, offset, value.n % 256),
                                        offset + 1, (value.n \div 256) % 256),
                      next |-> offset + 2])
      [] fn = "writeCompact" ->
            IF value.n < 128
                THEN Returned([bytes |-> SetByte(bytes, offset, value.n),
                               next |-> offset + 1])
                ELSE Returned([bytes |-> SetByte(SetByte(bytes, offset,
                                                         128 + (value.n % 128)),
                                                 offset + 1, value.n \div 128),
                               next |-> offset + 2])
      [] fn = "writeUnit" -> Returned([bytes |-> bytes, next |-> offset])
      [] fn = "writeShort" ->
            Returned([bytes |-> SetByte(bytes, offset, value.n % 256),
                      next |-> offset + 9])
      [] fn = "hijacked" -> Returned([bytes |-> bytes, next |-> 0])
      [] OTHER -> Threw(TypeError)

\* Decoder.read: (bytes, offset) => [value, offset].  The matched readers
\* call the bounds guards before they touch the bytes.
ApplyRead(fn, bytes, offset) ==
    CASE fn = "readU16" ->
            LET empty == AssertByteArrayIsNotEmptyForCodec("u16", bytes, Given(offset))
                short == AssertByteArrayHasEnoughBytesForCodec("u16", 2, bytes, Given(offset))
            IN  IF empty # NoError THEN Threw(empty)
                ELSE IF short # NoError THEN Threw(short)
                ELSE Returned(<<BigInt(bytes[offset + 1] + 256 * bytes[offset + 2]),
                                offset + 2>>)
      [] fn = "readCompact" ->
            LET empty == AssertByteArrayIsNotEmptyForCodec("compact", bytes, Given(offset))
                short == AssertByteArrayHasEnoughBytesForCodec("compact", 2, bytes, Given(offset))
            IN  IF empty # NoError THEN Threw(empty)
                ELSE IF bytes[offset + 1] < 128
                    THEN Returned(<<BigInt(bytes[offset + 1]), offset + 1>>)
                ELSE IF short # NoError THEN Threw(short)
                ELSE Returned(<<BigInt((bytes[offset + 1] - 128) + 128 * bytes[offset + 2]),
                                offset + 2>>)
      [] fn = "readUnit" -> Returned(<<BigInt(0), offset>>)
      [] fn = "hijacked" -> Returned(<<BigInt(0), 0>>)
      [] OTHER -> Threw(TypeError)

\* The write/read pairs a descriptor may carry; the first three are matched.
MatchedPairs == {<<"writeU16", "readU16">>, <<"writeCompact", "readCompact">>,
                 <<"writeUnit", "readUnit">>}
PrimitivePairs == MatchedPairs \cup {<<"writeShort", "readU16">>}

\* The values a write primitive is defined on.
ValidValue(fn, value) ==
    CASE fn = "writeU16" -> value.n < 65536
      [] fn = "writeCompact" -> value.n < 16384
      [] fn = "writeUnit" -> value.n = 0
      [] OTHER -> TRUE

\* The descriptor objects passed to the factories (EncoderSize & write & read).
Descriptor(fixedSize, maxSize, variableSize, pair) ==
    [fixedSize |-> fixedSize, maxSize |-> maxSize, variableSize |-> variableSize,
     write |-> pair[1], read |-> pair[2]]

FixedDescriptors ==
    {Descriptor(Num(n), UndefV, "undefined", pair) :
        n \in 0..MaxFixed, pair \in PrimitivePairs}

VariableDescriptors ==
    {Descriptor(NullV, maxSize, vs, pair) :
        maxSize \in {UndefV, Num(MaxFixed)}, vs \in {"compactSize", "constSize"},
        pair \in PrimitivePairs}

Descriptors == FixedDescriptors \cup VariableDescriptors

-----------------------------------------------------------------------------
(* getEncodedSize and the factories *)

\* Mutant: a truthiness test in place of !== null, so a fixed size of 0 falls
\* through to variableSize.
GetEncodedSizeTruthy(value, d) ==
    IF d.fixedSize # NullV /\ d.fixedSize.n # 0
        THEN Returned(d.fixedSize.n)
        ELSE ApplyVariableSize(d.variableSize, value)

\* getEncodedSize(value, encoder)
GetEncodedSize(value, d) ==
    IF d.fixedSize # NullV
        THEN Returned(d.fixedSize.n)
        ELSE ApplyVariableSize(d.variableSize, value)

\* Mutant: one byte too many allocated.
EncoderEncodeOversized(d, value) ==
    LET size == GetEncodedSize(value, d)
    IN  IF size.threw THEN size
        ELSE LET written == ApplyWrite(d.write, value, Zeros(size.value + 1), 0)
             IN  IF written.threw THEN written ELSE Returned(written.value.bytes)

\* The encode closure of createEncoder; d is the descriptor it captured.
EncoderEncode(d, value) ==
    LET size == GetEncodedSize(value, d)
    IN  IF size.threw THEN size
        ELSE LET written == ApplyWrite(d.write, value, Zeros(size.value), 0)
             IN  IF written.threw THEN written ELSE Returned(written.value.bytes)

\* Mutant: the offset dropped, every decode reading from 0.
DecoderDecodeIgnoresOffset(d, bytes, offset) ==
    LET got == ApplyRead(d.read, bytes, 0)
    IN  IF got.threw THEN got ELSE Returned(got.value[1])

\* The decode closure of createDecoder.
DecoderDecode(d, bytes, offset) ==
    LET got == ApplyRead(d.read, bytes, OffsetOrZero(offset))
    IN  IF got.threw THEN got ELSE Returned(got.value[1])

\* Mutant: the value written at offset 1 of the new array.
CodecEncodeShifted(d, value) ==
    LET size == GetEncodedSize(value, d)
    IN  IF size.threw THEN size
        ELSE LET written == ApplyWrite(d.write, value, Zeros(size.value), 1)
             IN  IF written.threw THEN written ELSE Returned(written.value.bytes)

\* The encode closure of createCodec.
CodecEncode(d, value) ==
    LET size == GetEncodedSize(value, d)
    IN  IF size.threw THEN size
        ELSE LET written == ApplyWrite(d.write, value, Zeros(size.value), 0)
             IN  IF written.threw THEN written ELSE Returned(written.value.bytes)

\* The decode closure of createCodec.
CodecDecode(d, bytes, offset) ==
    LET got == ApplyRead(d.read, bytes, OffsetOrZero(offset))
    IN  IF got.threw THEN got ELSE Returned(got.value[1])

\* The fields an object may expose.
Fields == {"fixedSize", "maxSize", "variableSize", "encode", "decode", "write", "read"}
SizeFields == {"fixedSize", "maxSize"}

\* An object literal: the listed fields, every other field absent (undefined).
Undefined(field) == IF field \in SizeFields THEN UndefV ELSE "undefined"
ObjectLiteral(keys, f) ==
    [keys |-> keys,
     f |-> [field \in Fields |-> IF field \in keys THEN f[field] ELSE Undefined(field)],
     frozen |-> FALSE]

\* Mutant: the object returned without being frozen.
NotFrozen(o) == o

\* Object.freeze(o)
Freeze(o) == [o EXCEPT !.frozen = TRUE]

\* The spread of the size fields: all three in the variable case, fixedSize alone
\* in the fixed case.
SizeKeys(d) ==
    IF d.fixedSize = NullV THEN {"fixedSize", "maxSize", "variableSize"}
                           ELSE {"fixedSize"}

\* createEncoder(encoder)
CreateEncoder(d) ==
    Freeze(ObjectLiteral(SizeKeys(d) \cup {"encode", "write"},
        [fixedSize |-> d.fixedSize, maxSize |-> d.maxSize,
         variableSize |-> d.variableSize,
         encode |-> "createEncoder.encode", write |-> d.write]))

\* createDecoder(decoder): the size fields without variableSize.
CreateDecoder(d) ==
    Freeze(ObjectLiteral((SizeKeys(d) \ {"variableSize"}) \cup {"decode", "read"},
        [fixedSize |-> d.fixedSize, maxSize |-> d.maxSize,
         decode |-> "createDecoder.decode", read |-> d.read]))

\* Mutant: maxSize dropped from the size fields re-exposed by the codec.
CreateCodecDropsMaxSize(d) ==
    Freeze(ObjectLiteral((SizeKeys(d) \ {"maxSize"}) \cup {"decode", "encode", "read", "write"},
        [fixedSize |-> d.fixedSize, variableSize |-> d.variableSize,
         decode |-> "createCodec.decode", encode |-> "createCodec.encode",
         read |-> d.read, write |-> d.write]))

\* createCodec(codec)
CreateCodec(d) ==
    Freeze(ObjectLiteral(SizeKeys(d) \cup {"decode", "encode", "read", "write"},
        [fixedSize |-> d.fixedSize, maxSize |-> d.maxSize,
         variableSize |-> d.variableSize,
         decode |-> "createCodec.decode", encode |-> "createCodec.encode",
         read |-> d.read, write |-> d.write]))

\* obj[field] = value: ignored (or a TypeError in strict mode) on a frozen object.
AssignField(obj, field, value) ==
    IF obj.frozen THEN obj
    ELSE [obj EXCEPT !.f[field] = value, !.keys = @ \cup {field}]

\* delete obj[field]: likewise without effect on a frozen object.
DeleteField(obj, field) ==
    IF obj.frozen THEN obj
    ELSE [obj EXCEPT !.f[field] = Undefined(field), !.keys = @ \ {field}]

\* Calls through an object's fields; d is the descriptor its closures captured.
CallEncode(obj, d, value) ==
    CASE obj.f.encode = "createEncoder.encode" -> EncoderEncode(d, value)
      [] obj.f.encode = "createCodec.encode" -> CodecEncode(d, value)
      [] obj.f.encode = "hijacked" -> Returned(<<>>)
      [] OTHER -> Threw(TypeError)

CallDecode(obj, d, bytes, offset) ==
    CASE obj.f.decode = "createDecoder.decode" -> DecoderDecode(d, bytes, offset)
      [] obj.f.decode = "createCodec.decode" -> CodecDecode(d, bytes, offset)
      [] obj.f.decode = "hijacked" -> Returned(BigInt(0))
      [] OTHER -> Threw(TypeError)

CallWrite(obj, value, bytes, offset) == ApplyWrite(obj.f.write, value, bytes, offset)

CallRead(obj, bytes, offset) == ApplyRead(obj.f.read, bytes, offset)

-----------------------------------------------------------------------------
(* The state machine *)

EncoderTargets == {"encoder", "codec"}
DecoderTargets == {"decoder", "codec"}

Object(target) ==
    CASE target = "encoder" -> encoder
      [] target = "decoder" -> decoder
      [] OTHER -> codec

\* The state after the caller built one descriptor and passed it to the three
\* factories.
Init ==
    /\ desc \in Descriptors
    /\ encoder = CreateEncoder(desc)
    /\ decoder = CreateDecoder(desc)
    /\ codec = CreateCodec(desc)
    /\ buffer = <<>>
    /\ parts = <<>>
    /\ last = [op |-> "none"]
    /\ heap = <<>>
    /\ calls = <<>>
    /\ guard = [fn |-> "none"]

\* target.encode(value); the caller appends the bytes returned to its buffer.
Encode(target, value) ==
    LET result == CallEncode(Object(target), desc, value)
    IN  /\ Len(parts) < MaxChain
        /\ last' = [op |-> "encode", target |-> target, value |-> value,
                    result |-> result]
        /\ IF result.threw
               THEN UNCHANGED <<buffer, parts>>
               ELSE /\ buffer' = buffer \o result.value
                    /\ parts' = Append(parts,
                          [value |-> value, start |-> Len(buffer),
                           end |-> Len(buffer) + Len(result.value)])
        /\ UNCHANGED <<desc, encoder, decoder, codec, heap, calls, guard>>

\* target.decode(buffer) or target.decode(buffer, offset).
Decode(target, offset) ==
    /\ last' = [op |-> "decode", target |-> target, offset |-> offset,
                result |-> CallDecode(Object(target), desc, buffer, offset)]
    /\ UNCHANGED <<desc, encoder, decoder, codec, buffer, parts, heap, calls, guard>>

\* target.read(buffer, offset).
Read(target, offset) ==
    /\ last' = [op |-> "read", target |-> target, offset |-> offset,
                result |-> CallRead(Object(target), buffer, offset)]
    /\ UNCHANGED <<desc, encoder, decoder, codec, buffer, parts, heap, calls, guard>>

\* target.write(value, scratch, offset) into a zeroed scratch array of the caller.
Write(target, value, offset) ==
    /\ last' = [op |-> "write", target |-> target, value |-> value, offset |-> offset,
                result |-> CallWrite(Object(target), value, Zeros(MaxFixed), offset)]
    /\ UNCHANGED <<desc, encoder, decoder, codec, buffer, parts, heap, calls, guard>>

\* codec.decode(codec.encode(value)): the round trip through one codec.
RoundTrip(value) ==
    LET encoded == CallEncode(codec, desc, value)
    IN  /\ last' = [op |-> "roundtrip", value |-> value, encoded |-> encoded,
                    result |-> IF encoded.threw THEN encoded
                               ELSE CallDecode(codec, desc, encoded.value, Omitted)]
        /\ UNCHANGED <<desc, encoder, decoder, codec, buffer, parts, heap, calls, guard>>

\* The caller tries to replace or delete an exposed field of a returned object.
Attempt(target, field, how) ==
    LET obj == Object(target)
        changed == IF how = "delete"
                       THEN DeleteField(obj, field)
                       ELSE AssignField(obj, field,
                                IF field \in SizeFields THEN Num(MaxFixed + 1)
                                                        ELSE "hijacked")
    IN  /\ field \in obj.keys
        /\ encoder' = IF target = "encoder" THEN changed ELSE encoder
        /\ decoder' = IF target = "decoder" THEN changed ELSE decoder
        /\ codec' = IF target = "codec" THEN changed ELSE codec
        /\ last' = [op |-> "attempt", how |-> how]
        /\ UNCHANGED <<desc, buffer, parts, heap, calls, guard>>

Next ==
    \/ \E target \in EncoderTargets, value \in Values : Encode(target, value)
    \/ \E target \in DecoderTargets, offset \in {Omitted} \cup {Given(o) : o \in 0..MaxOffset} :
          Decode(target, offset)
    \/ \E target \in DecoderTargets, offset \in 0..MaxOffset : Read(target, offset)
    \/ \E target \in EncoderTargets, value \in Values, offset \in 0..1 :
          Write(target, value, offset)
    \/ \E value \in Values : RoundTrip(value)
    \/ \E target \in {"encoder", "decoder", "codec"}, field \in Fields,
          how \in {"assign", "delete"} : Attempt(target, field, how)

Spec == Init /\ [][Next]_vars

-----------------------------------------------------------------------------
(* The caller changing the descriptor object after construction *)

\* The descriptor as it was when the factories ran, read back from the codec.
DescriptorOf(obj) ==
    [fixedSize |-> obj.f.fixedSize, maxSize |-> obj.f.maxSize,
     variableSize |-> obj.f.variableSize, write |-> obj.f.write, read |-> obj.f.read]

\* A descriptor the types allow: the variable case carries variableSize.
TypeValid(d) == d.fixedSize = NullV => d.variableSize # "undefined"

FieldValues(field) ==
    CASE field = "fixedSize" -> {NullV} \cup {Num(n) : n \in 0..MaxFixed}
      [] field = "variableSize" -> {"compactSize", "constSize"}
      [] field = "write" -> {pair[1] : pair \in PrimitivePairs}
      [] OTHER -> {pair[2] : pair \in PrimitivePairs}

\* desc[field] = value by the caller, who still holds the object it passed in
\* (the factories neither copy nor freeze it); at most one such assignment.
MutateDescriptor(field, value) ==
    /\ desc = DescriptorOf(codec)
    /\ desc[field] # value
    /\ TypeValid([desc EXCEPT ![field] = value])
    /\ desc' = [desc EXCEPT ![field] = value]
    /\ UNCHANGED <<encoder, decoder, codec, buffer, parts, last, heap, calls, guard>>

NextMut ==
    \/ \E field \in {"fixedSize", "variableSize", "write", "read"} :
          \E value \in FieldValues(field) : MutateDescriptor(field, value)
    \/ \E target \in EncoderTargets, value \in Values : Encode(target, value)
    \/ \E target \in DecoderTargets, offset \in {Omitted} \cup {Given(o) : o \in 0..MaxOffset} :
          Decode(target, offset)

SpecMut == Init /\ [][NextMut]_vars

-----------------------------------------------------------------------------
(* Interleaved encode activations *)

\* Mutant: an array of the wanted length already on the heap is handed out again.
PooledUint8Array(h, n) ==
    IF \E i \in 1..Len(h) : Len(h[i]) = n
        THEN [heap |-> h, ref |-> CHOOSE i \in 1..Len(h) : Len(h[i]) = n]
        ELSE [heap |-> Append(h, Zeros(n)), ref |-> Len(h) + 1]

\* new Uint8Array(n): a fresh zeroed array on the heap and the reference to it.
NewUint8Array(h, n) == [heap |-> Append(h, Zeros(n)), ref |-> Len(h) + 1]

\* encode, first statement: const bytes = new Uint8Array(getEncodedSize(value, d)).
EncodeAllocate(target, value) ==
    LET size == GetEncodedSize(value, desc)
        new == NewUint8Array(heap, size.value)
    IN  /\ Len(calls) < MaxCalls
        /\ Object(target).f.encode \in {"createEncoder.encode", "createCodec.encode"}
        /\ IF size.threw
               THEN /\ calls' = Append(calls, [target |-> target, value |-> value,
                                               ref |-> 0, pc |-> "threw"])
                    /\ UNCHANGED heap
               ELSE /\ calls' = Append(calls, [target |-> target, value |-> value,
                                               ref |-> new.ref, pc |-> "allocated"])
                    /\ heap' = new.heap
        /\ UNCHANGED <<desc, encoder, decoder, codec, buffer, parts, last, guard>>

\* encode, second statement: d.write(value, bytes, 0) on the activation's own bytes.
EncodeWrite(i) ==
    LET call == calls[i]
        written == ApplyWrite(desc.write, call.value, heap[call.ref], 0)
    IN  /\ call.pc = "allocated"
        /\ IF written.threw
               THEN /\ calls' = [calls EXCEPT ![i].pc = "threw"]
                    /\ UNCHANGED heap
               ELSE /\ calls' = [calls EXCEPT ![i].pc = "written"]
                    /\ heap' = [heap EXCEPT ![call.ref] = written.value.bytes]
        /\ UNCHANGED <<desc, encoder, decoder, codec, buffer, parts, last, guard>>

\* encode, third statement: return bytes.
EncodeReturn(i) ==
    /\ calls[i].pc = "written"
    /\ calls' = [calls EXCEPT ![i].pc = "returned"]
    /\ UNCHANGED <<desc, encoder, decoder, codec, buffer, parts, last, heap, guard>>

NextConc ==
    \/ \E target \in EncoderTargets, value \in Values : EncodeAllocate(target, value)
    \/ \E i \in 1..Len(calls) : EncodeWrite(i)
    \/ \E i \in 1..Len(calls) : EncodeReturn(i)

SpecConc == Init /\ [][NextConc]_vars

-----------------------------------------------------------------------------
(* Direct calls of the bounds guards *)

Descriptions == {"x", "u16"}
GuardOffsets == {Omitted} \cup {Given(o) : o \in 0..MaxGuardOffset}

CallNotEmpty(codecDescription, length, offset) ==
    /\ guard' = [fn |-> "assertByteArrayIsNotEmptyForCodec",
                 codecDescription |-> codecDescription, length |-> length,
                 offset |-> offset,
                 error |-> AssertByteArrayIsNotEmptyForCodec(codecDescription,
                                                             Zeros(length), offset)]
    /\ UNCHANGED <<desc, encoder, decoder, codec, buffer, parts, last, heap, calls>>

CallHasEnoughBytes(codecDescription, expected, length, offset) ==
    /\ guard' = [fn |-> "assertByteArrayHasEnoughBytesForCodec",
                 codecDescription |-> codecDescription, expected |-> expected,
                 length |-> length, offset |-> offset,
                 error |-> AssertByteArrayHasEnoughBytesForCodec(codecDescription,
                                                  expected, Zeros(length), offset)]
    /\ UNCHANGED <<desc, encoder, decoder, codec, buffer, parts, last, heap, calls>>

NextGuards ==
    \/ \E d \in Descriptions, length \in 0..MaxLen, offset \in GuardOffsets :
          CallNotEmpty(d, length, offset)
    \/ \E d \in Descriptions, expected \in 0..MaxExpected, length \in 0..MaxLen,
          offset \in GuardOffsets : CallHasEnoughBytes(d, expected, length, offset)

\* The guards take no codec object: one descriptor stands for all.
InitGuards == Init /\ desc = Descriptor(Num(MaxFixed), UndefV, "undefined",
                                        <<"writeU16", "readU16">>)

SpecGuards == InitGuards /\ [][NextGuards]_vars

-----------------------------------------------------------------------------
(* The claims *)

\* The offset a call was given, 0 when it was omitted.
OffsetGiven(offset) == IF offset = Omitted THEN 0 ELSE offset[1]

\* A descriptor whose write consumes exactly the encoded size of every valid
\* value and whose read is the inverse of that write.
WellPaired(d) ==
    /\ <<d.write, d.read>> \in MatchedPairs
    /\ \A v \in Values :
          ValidValue(d.write, v) =>
              LET size == GetEncodedSize(v, d)
              IN  /\ ~size.threw
                  /\ ApplyWrite(d.write, v, Zeros(size.value), 0).value.next = size.value

\* C1: encode(v) returns a byte array whose length is the descriptor's fixedSize
\* when that is a number (0 included, variableSize then never called) and
\* variableSize(v) when fixedSize is null, whatever write does or returns.
C1_EncodeLength ==
    last.op = "encode" =>
        /\ ~last.result.threw
        /\ Len(last.result.value) =
              IF desc.fixedSize.t = "number"
                  THEN desc.fixedSize.n
                  ELSE ApplyVariableSize(desc.variableSize, last.value).value

\* An encode with fixedSize 0 returned the empty array, with a write that
\* returns a wrong offset.
C1_Witness ==
    /\ last.op = "encode"
    /\ desc.fixedSize = Num(0)
    /\ desc.write = "writeShort"
    /\ last.value = Number(300)
    /\ last.result = Returned(<<>>)

\* C2: for a correctly paired codec and a valid value v, codec.decode(codec.encode(v))
\* returns a value equivalent to v.
C2_RoundTrip ==
    (last.op = "roundtrip" /\ WellPaired(desc) /\ ValidValue(desc.write, last.value)) =>
        /\ ~last.result.threw
        /\ Equivalent(last.result.value, last.value)

\* A plain number went through a paired codec and came back as the bigint of the
\* same value.
C2_Witness ==
    /\ last.op = "roundtrip"
    /\ WellPaired(desc)
    /\ last.value = Number(300)
    /\ last.result = Returned(BigInt(300))

\* C3: assertByteArrayIsNotEmptyForCodec throws the empty-byte-array error, carrying
\* the description, exactly when length(bytes) - offset <= 0 (offset 0 when omitted).
C3_NotEmptyGuard ==
    guard.fn = "assertByteArrayIsNotEmptyForCodec" =>
        IF guard.length - OffsetGiven(guard.offset) <= 0
            THEN guard.error = [code |-> "CANNOT_DECODE_EMPTY_BYTE_ARRAY",
                                codecDescription |-> guard.codecDescription]
            ELSE guard.error = NoError

\* The guard threw for offset = length on a non-empty array.
C3_Witness ==
    /\ guard.fn = "assertByteArrayIsNotEmptyForCodec"
    /\ guard.length > 0
    /\ guard.offset = Given(guard.length)
    /\ guard.error = [code |-> "CANNOT_DECODE_EMPTY_BYTE_ARRAY", codecDescription |-> "x"]

\* C4: assertByteArrayHasEnoughBytesForCodec throws the invalid-byte-length error
\* exactly when available = length(bytes) - offset < expected, and the error carries
\* the description, expected and available; available = expected passes.
C4_HasEnoughBytesGuard ==
    guard.fn = "assertByteArrayHasEnoughBytesForCodec" =>
        LET available == guard.length - OffsetGiven(guard.offset)
        IN  IF available < guard.expected
                THEN guard.error = [code |-> "INVALID_BYTE_LENGTH",
                                    bytesLength |-> available,
                                    codecDescription |-> guard.codecDescription,
                                    expected |-> guard.expected]
                ELSE guard.error = NoError

\* Expected 4 of an array of 5 at offset 2: thrown, with 3 available.
C4_Witness ==
    /\ guard.fn = "assertByteArrayHasEnoughBytesForCodec"
    /\ guard.expected = 4 /\ guard.length = 5 /\ guard.offset = Given(2)
    /\ guard.error = [code |-> "INVALID_BYTE_LENGTH", bytesLength |-> 3,
                      codecDescription |-> "x", expected |-> 4]

\* C5: with a correctly paired codec and valid values, the buffer made of the
\* encode results one after the other ends where the last result ends, and a read
\* at the start of any of them returns a value equivalent to the one encoded
\* there and the offset where its bytes end.
C5_OffsetChaining ==
    (WellPaired(desc) /\ \A i \in 1..Len(parts) : ValidValue(desc.write, parts[i].value)) =>
        /\ parts # <<>> => parts[Len(parts)].end = Len(buffer)
        /\ last.op = "read" =>
              \A i \in 1..Len(parts) :
                  parts[i].start = last.offset =>
                      /\ ~last.result.threw
                      /\ Equivalent(last.result.value[1], parts[i].value)
                      /\ last.result.value[2] = parts[i].end

\* The second of two different values was read back from where the first ended,
\* and the read ended at the end of the buffer.
C5_Witness ==
    /\ WellPaired(desc)
    /\ Len(parts) = 2
    /\ parts[1].value # parts[2].value
    /\ parts[1].end = parts[2].start /\ parts[2].start > 0
    /\ last.op = "read" /\ last.offset = parts[2].start
    /\ last.result = Returned(<<BigInt(parts[2].value.n), Len(buffer)>>)

\* C6: whatever the caller tries to assign to or delete from the returned objects,
\* each is as the factory built it, and calls through it do what the closures and
\* primitives it was built with do.
C6_ReturnedObjectsImmutable ==
    /\ encoder = CreateEncoder(desc)
    /\ decoder = CreateDecoder(desc)
    /\ codec = CreateCodec(desc)
    /\ \A v \in Values :
          /\ CallEncode(encoder, desc, v) = EncoderEncode(desc, v)
          /\ CallEncode(codec, desc, v) = CodecEncode(desc, v)
          /\ \A o \in 0..1 :
                /\ CallWrite(encoder, v, Zeros(MaxFixed), o)
                      = ApplyWrite(desc.write, v, Zeros(MaxFixed), o)
                /\ CallWrite(codec, v, Zeros(MaxFixed), o)
                      = ApplyWrite(desc.write, v, Zeros(MaxFixed), o)
    /\ \A o \in 0..MaxOffset :
          /\ CallDecode(decoder, desc, buffer, Given(o)) = DecoderDecode(desc, buffer, Given(o))
          /\ CallDecode(codec, desc, buffer, Given(o)) = CodecDecode(desc, buffer, Given(o))
          /\ CallRead(decoder, buffer, o) = ApplyRead(desc.read, buffer, o)
          /\ CallRead(codec, buffer, o) = ApplyRead(desc.read, buffer, o)

\* The caller has just tried to delete a field of a returned object.
C6_Witness ==
    /\ last.op = "attempt"
    /\ last.how = "delete"
    /\ buffer # <<>>

\* C7: decode(buffer, offset) is the value component of read(buffer, offset), with
\* offset 0 when omitted; when read throws, decode throws the same error.
C7_DecodeIsValueOfRead ==
    last.op = "decode" =>
        LET got == ApplyRead(Object(last.target).f.read, buffer, OffsetGiven(last.offset))
        IN  IF got.threw THEN last.result = got
                         ELSE last.result = Returned(got.value[1])

\* A decode at a non-zero offset returned the second value of the buffer.
C7_Witness ==
    /\ last.op = "decode" /\ last.target = "decoder"
    /\ Len(parts) = 2 /\ parts[2].start > 0
    /\ last.offset = Given(parts[2].start)
    /\ parts[1].value # parts[2].value
    /\ last.result = Returned(BigInt(parts[2].value.n))

\* C8: however encode activations interleave, no two hold the same array, an
\* array is all zeros until its own activation writes it, and from then on it
\* holds what that encode run alone returns, also after later encodes.
C8_PrivateBuffers ==
    /\ \A i, j \in 1..Len(calls) :
          (i # j /\ calls[i].ref # 0 /\ calls[j].ref # 0) => calls[i].ref # calls[j].ref
    /\ \A i \in 1..Len(calls) :
          /\ calls[i].pc = "allocated" =>
                heap[calls[i].ref] = Zeros(Len(heap[calls[i].ref]))
          /\ calls[i].pc \in {"written", "returned"} =>
                Returned(heap[calls[i].ref])
                    = CallEncode(Object(calls[i].target), desc, calls[i].value)

\* A second encode of another value ran to its end, into an array of the same
\* length, while the first had allocated and not yet written.
C8_Witness ==
    /\ Len(calls) >= 2
    /\ calls[1].pc = "allocated" /\ calls[2].pc = "returned"
    /\ calls[1].value # calls[2].value
    /\ Len(heap[calls[1].ref]) = Len(heap[calls[2].ref])
    /\ heap[calls[2].ref] # Zeros(Len(heap[calls[2].ref]))

\* C9: the codec exposes the keys of the encoder and of the decoder built from the
\* same descriptor, with the same values: the supplied write and read, fixedSize
\* alone in the fixed case and fixedSize = null with the descriptor's maxSize and
\* variableSize in the variable case; its encode and decode return what theirs do.
C9_CodecCombinesBoth ==
    /\ codec.keys = encoder.keys \cup decoder.keys
    /\ \A field \in encoder.keys \ {"encode"} : codec.f[field] = encoder.f[field]
    /\ \A field \in decoder.keys \ {"decode"} : codec.f[field] = decoder.f[field]
    /\ codec.f.write = desc.write /\ codec.f.read = desc.read
    /\ codec.f.fixedSize = desc.fixedSize
    /\ IF desc.fixedSize = NullV
           THEN /\ {"maxSize", "variableSize"} \subseteq codec.keys
                /\ codec.f.maxSize = desc.maxSize
                /\ codec.f.variableSize = desc.variableSize
           ELSE codec.keys \cap {"maxSize", "variableSize"} = {}
    /\ \A v \in Values : CallEncode(codec, desc, v) = CallEncode(encoder, desc, v)
    /\ \A offset \in {Omitted} \cup {Given(o) : o \in 0..MaxOffset} :
          CallDecode(codec, desc, buffer, offset) = CallDecode(decoder, desc, buffer, offset)

\* A variable-size codec with a maxSize has decoded a non-empty buffer.
C9_Witness ==
    /\ desc.fixedSize = NullV /\ desc.maxSize = Num(MaxFixed)
    /\ last.op = "decode" /\ last.target = "codec"
    /\ buffer # <<>>
    /\ ~last.result.threw

\* C10: an object stays consistent with its own exposed fields, also after the
\* caller changed the descriptor it had passed: encode allocates by the object's
\* own size fields and fills with its own write, decode uses its own read.
C10_ConsistentWithOwnFields ==
    /\ last.op = "encode" =>
          last.result = EncoderEncode(DescriptorOf(Object(last.target)), last.value)
    /\ last.op = "decode" =>
          LET got == ApplyRead(Object(last.target).f.read, buffer, OffsetGiven(last.offset))
          IN  IF got.threw THEN last.result = got
                           ELSE last.result = Returned(got.value[1])

=============================================================================
